---- MODULE Spec2Model ----
(***************************************************************************)
(* A model of execas.c: main() reads the real and the effective user id of *)
(* the process (getuid, geteuid), prints them with                         *)
(*     printf("real: %d effective: %d\n", ruid, euid)                      *)
(* and returns 0.                                                          *)
(*                                                                         *)
(* The process is modelled together with the part of its environment the   *)
(* four statements touch: the credentials the kernel gave the process at   *)
(* exec time, the stdio stream stdout (its buffer and buffering mode) and  *)
(* file descriptor 1 behind it.                                            *)
(*                                                                         *)
(* uid_t is a 32-bit unsigned integer.  A 32-bit word is kept as two       *)
(* 16-bit halves [hi, lo], so that values up to 2^32 - 1 are represented   *)
(* exactly and all arithmetic on them stays inside the 32-bit range.       *)
(***************************************************************************)
EXTENDS Integers, Sequences, FiniteSets, TLC

VARIABLES
    invoker,    \* uid of the user who runs the program
    exe,        \* the executable file: [owner, setuid]
    stream,     \* where stdout goes: [mode, fd1, sigpipe]
    input,      \* what this run is given: [argc, envc, stdin]
    proc,       \* the process's credentials, kept by the kernel: [ruid, euid]
    pc,         \* the statement main() is at: "L9", "L10", "L12", "L14",
                \* or "exited" / "killed" once the process is gone
    ruid,       \* main's local ruid
    euid,       \* main's local euid
    buf,        \* stdout's stdio buffer: characters not yet written to fd 1
    out,        \* the characters fd 1 has received
    printfRet,  \* what printf returned (main discards it)
    status,     \* the exit status, NoStatus while running or when killed
    trace,      \* the statements of main executed so far in this run
    syscalls,   \* the system calls made so far in this run
    prev        \* the previous completed run: [valid, input, out, status, end]

vars == <<invoker, exe, stream, input, proc, pc, ruid, euid, buf, out,
          printfRet, status, trace, syscalls, prev>>

-----------------------------------------------------------------------------
(* Bounds of the model.                                                    *)

\* a run is given 0..MaxArgs command-line arguments
MaxArgs == 1

-----------------------------------------------------------------------------
(* 32-bit words.                                                           *)

\* uid_t is 32 bits wide; a word is two halves of HalfBits bits
HalfBits == 16

Half == 2^HalfBits

W(h, l) == [hi |-> h, lo |-> l]

Zero32 == W(0, 0)

\* the sign bit of a word read as an int
IsNeg32(w) == w.hi >= Half \div 2

\* two's complement negation in 32 bits: -(unsigned) w
Neg32(w) ==
    IF w.lo = 0 THEN W((Half - w.hi) % Half, 0)
                ELSE W(Half - 1 - w.hi, Half - w.lo)

\* w divided by ten: [q, r] with w = 10 * q + r
DivMod10(w) ==
    LET c == (w.hi % 10) * Half + w.lo
    IN  [q |-> W(w.hi \div 10, c \div 10), r |-> c % 10]

-----------------------------------------------------------------------------
(* printf.                                                                 *)

DigitChar(d) == <<"0", "1", "2", "3", "4", "5", "6", "7", "8", "9">>[d + 1]

Word32 == [hi : 0..(Half - 1), lo : 0..(Half - 1)]

\* the decimal digits of an unsigned word, most significant first: the last
\* digit is w mod 10, the digits before it are those of w div 10
UDigitsOf[w \in Word32] ==
    IF w.hi = 0 /\ w.lo < 10 THEN <<DigitChar(w.lo)>>
    ELSE UDigitsOf[DivMod10(w).q] \o <<DigitChar(DivMod10(w).r)>>

UDigits(w) == UDigitsOf[w]

\* %u: the word as an unsigned decimal (what execas.c does not use)
FormatU(w) == UDigits(w)

\* %d: the word read as a signed int
FormatD(w) ==
    IF IsNeg32(w) THEN <<"-">> \o UDigits(Neg32(w)) ELSE UDigits(w)

\* the format string of line 12
Fmt ==
    <<"r", "e", "a", "l", ":", " ", "%", "d", " ",
      "e", "f", "f", "e", "c", "t", "i", "v", "e", ":", " ", "%", "d", "\n">>

\* the characters printf produces for a format and its arguments
RECURSIVE Vfprintf(_, _)
Vfprintf(fmt, args) ==
    IF fmt = <<>> THEN <<>>
    ELSE IF Head(fmt) = "%" /\ Len(fmt) >= 2 /\ fmt[2] = "d"
         THEN FormatD(Head(args)) \o Vfprintf(Tail(Tail(fmt)), Tail(args))
         ELSE <<Head(fmt)>> \o Vfprintf(Tail(fmt), args)

-----------------------------------------------------------------------------
(* The environment of a run.                                               *)

\* the user ids the model runs with: 0, 1000, 2^31 - 1, 2^31, 2^32 - 2, 2^32 - 1
Uids ==
    {W(0, 0), W(0, 1000), W(Half \div 2 - 1, Half - 1), W(Half \div 2, 0),
     W(Half - 1, Half - 2), W(Half - 1, Half - 1)}

\* a local variable that has not been assigned yet
Undef == W(-1, -1)

NoStatus == -1

\* stdout is line buffered on a terminal and fully buffered otherwise; fd 1
\* takes the write ("ok"), fails it with an error such as EBADF or EIO
\* ("error"), or is a pipe without a reader ("epipe"); SIGPIPE is at its
\* default disposition or ignored
Streams ==
    {s \in [mode : {"line", "full"}, fd1 : {"ok", "error", "epipe"},
            sigpipe : {"default", "ignored"}] :
        s.fd1 = "epipe" => s.mode = "full"}

Inputs == [argc : 0..MaxArgs, envc : 0..1, stdin : 0..1]

NoPrev == [valid |-> FALSE, input |-> [argc |-> 0, envc |-> 0, stdin |-> 0],
           out |-> <<>>, status |-> NoStatus, end |-> "exited"]

\* the credentials exec gives the process
ExecCreds(u, e) ==
    [ruid |-> u, euid |-> IF e.setuid THEN e.owner ELSE u]

\* write(1, data): [out, ok, killed]
Write(data) ==
    IF stream.fd1 = "ok"
    THEN [out |-> out \o data, ok |-> TRUE, killed |-> FALSE]
    ELSE [out |-> out, ok |-> FALSE,
          killed |-> stream.fd1 = "epipe" /\ stream.sigpipe = "default"]

Terminated == pc \in {"exited", "killed"}

-----------------------------------------------------------------------------
(* The program.                                                            *)

Init ==
    /\ invoker \in Uids
    /\ exe \in [owner : Uids, setuid : BOOLEAN]
    /\ stream \in Streams
    /\ input \in Inputs
    /\ proc = ExecCreds(invoker, exe)
    /\ pc = "L9"
    /\ ruid = Undef
    /\ euid = Undef
    /\ buf = <<>>
    /\ out = <<>>
    /\ printfRet = 0
    /\ status = NoStatus
    /\ trace = <<>>
    /\ syscalls = <<>>
    /\ prev = NoPrev

\* a slip: the real uid is taken from the first argument when there is one
GetUid_FromArgv ==
    /\ pc = "L9"
    /\ ruid' = IF input.argc > 0 THEN W(0, input.argc) ELSE proc.ruid
    /\ pc' = "L10"
    /\ trace' = Append(trace, "getuid")
    /\ syscalls' = Append(syscalls, "getuid")
    /\ UNCHANGED <<invoker, exe, stream, input, proc, euid, buf, out,
                   printfRet, status, prev>>

\* line 9: ruid = getuid();
GetUid ==
    /\ pc = "L9"
    /\ ruid' = proc.ruid
    /\ pc' = "L10"
    /\ trace' = Append(trace, "getuid")
    /\ syscalls' = Append(syscalls, "getuid")
    /\ UNCHANGED <<invoker, exe, stream, input, proc, euid, buf, out,
                   printfRet, status, prev>>

\* line 10 with its result in id
GetEuidAs(id) ==
    /\ pc = "L10"
    /\ euid' = id
    /\ pc' = "L12"
    /\ trace' = Append(trace, "geteuid")
    /\ syscalls' = Append(syscalls, "geteuid")
    /\ UNCHANGED <<invoker, exe, stream, input, proc, ruid, buf, out,
                   printfRet, status, prev>>

\* a slip: euid declared as a 16-bit integer
GetEuid_Truncated == GetEuidAs(W(0, proc.euid.lo))

\* a slip: getuid() called twice
GetEuid_Real == GetEuidAs(proc.ruid)

\* a slip: the program gives up its privileges, seteuid(getuid())
GetEuid_DropPrivileges ==
    /\ pc = "L10"
    /\ euid' = proc.euid
    /\ proc' = [proc EXCEPT !.euid = proc.ruid]
    /\ pc' = "L12"
    /\ trace' = Append(trace, "geteuid")
    /\ syscalls' = syscalls \o <<"geteuid", "setresuid">>
    /\ UNCHANGED <<invoker, exe, stream, input, ruid, buf, out,
                   printfRet, status, prev>>

\* line 10: euid = geteuid();
GetEuid == GetEuidAs(proc.euid)

\* line 12 printing the characters of line: they go to stdout's buffer; a
\* line-buffered stdout writes them at the newline, and printf then returns
\* -1 if the write failed
PrintfLine(line) ==
    /\ pc = "L12"
    /\ LET w == Write(line)
       IN  IF stream.mode = "line"
           THEN /\ buf' = <<>>
                /\ out' = w.out
                /\ syscalls' = Append(syscalls, "write")
                /\ printfRet' = IF w.ok THEN Len(line) ELSE -1
                /\ pc' = IF w.killed THEN "killed" ELSE "L14"
           ELSE /\ buf' = buf \o line
                /\ out' = out
                /\ syscalls' = syscalls
                /\ printfRet' = Len(line)
                /\ pc' = "L14"
    /\ trace' = Append(trace, "printf")
    /\ UNCHANGED <<invoker, exe, stream, input, proc, ruid, euid, status, prev>>

\* a slip: the arguments in the wrong order
Printf_ArgsSwapped == PrintfLine(Vfprintf(Fmt, <<euid, ruid>>))

\* a slip: the line printed twice
Printf_Twice ==
    PrintfLine(Vfprintf(Fmt, <<ruid, euid>>) \o Vfprintf(Fmt, <<ruid, euid>>))

\* a slip: a failed write is tried again until it succeeds
Printf_Retry ==
    IF stream.mode = "line" /\ stream.fd1 # "ok"
    THEN pc = "L12" /\ UNCHANGED vars
    ELSE PrintfLine(Vfprintf(Fmt, <<ruid, euid>>))

\* line 12: printf("real: %d effective: %d\n", ruid, euid);
Printf == PrintfLine(Vfprintf(Fmt, <<ruid, euid>>))

\* line 14 returning code: returning from main calls exit(code), which
\* flushes stdout and ends the process with status code whatever the flush
\* did, unless the write dies of SIGPIPE
ReturnCode(code) ==
    /\ pc = "L14"
    /\ LET w == Write(buf)
       IN  IF buf = <<>>
           THEN /\ out' = out
                /\ syscalls' = Append(syscalls, "exit")
                /\ pc' = "exited"
                /\ status' = code
           ELSE /\ out' = w.out
                /\ syscalls' = IF w.killed THEN Append(syscalls, "write")
                               ELSE syscalls \o <<"write", "exit">>
                /\ pc' = IF w.killed THEN "killed" ELSE "exited"
                /\ status' = IF w.killed THEN NoStatus ELSE code
    /\ buf' = <<>>
    /\ trace' = Append(trace, "return")
    /\ UNCHANGED <<invoker, exe, stream, input, proc, ruid, euid, printfRet, prev>>

\* a slip: return errno; (EIO after a failed write)
Return_Errno == ReturnCode(IF printfRet < 0 THEN 5 ELSE 0)

\* a slip: the result of the output is checked, failure exits with 1
Return_Checked ==
    ReturnCode(IF printfRet < 0 \/ (buf # <<>> /\ ~Write(buf).ok) THEN 1 ELSE 0)

\* line 14: return 0;
Return == ReturnCode(0)

\* the same user runs the same executable again, with any arguments,
\* environment and standard input
Exec ==
    /\ Terminated
    /\ prev' = [valid |-> TRUE, input |-> input, out |-> out,
                status |-> status, end |-> pc]
    /\ input' \in Inputs
    /\ proc' = ExecCreds(invoker, exe)
    /\ pc' = "L9"
    /\ ruid' = Undef
    /\ euid' = Undef
    /\ buf' = <<>>
    /\ out' = <<>>
    /\ printfRet' = 0
    /\ status' = NoStatus
    /\ trace' = <<>>
    /\ syscalls' = <<>>
    /\ UNCHANGED <<invoker, exe, stream>>

\* one statement of main
Step == GetUid \/ GetEuid \/ Printf \/ Return

Next == GetUid \/ GetEuid \/ Printf \/ Return \/ Exec

Spec == Init /\ [][Next]_vars

\* one run of the process, from exec to its end: a process that can run is
\* run (the scheduler does not starve it), and each of its system calls
\* returns
FairSpec == Init /\ [][Step]_vars /\ WF_vars(Step)

-----------------------------------------------------------------------------
(* Reading an output line back.                                            *)
(* The claims below are stated on what a reader of standard output sees:   *)
(* the line is split at its literal text and the two numerals are read as  *)
(* numbers, independently of how printf produced them.                     *)

LitReal == <<"r", "e", "a", "l", ":", " ">>

LitEffective == <<" ", "e", "f", "f", "e", "c", "t", "i", "v", "e", ":", " ">>

Digits == {"0", "1", "2", "3", "4", "5", "6", "7", "8", "9"}

NumChars == Digits \cup {"-"}

DigitVal(c) ==
    CASE c = "0" -> 0 [] c = "1" -> 1 [] c = "2" -> 2 [] c = "3" -> 3
      [] c = "4" -> 4 [] c = "5" -> 5 [] c = "6" -> 6 [] c = "7" -> 7
      [] c = "8" -> 8 [] c = "9" -> 9

\* s[m..n], cut to the length of s
Sub(s, m, n) ==
    LET e == IF n > Len(s) THEN Len(s) ELSE n
    IN  IF m > e THEN <<>> ELSE SubSeq(s, m, e)

\* the length of the longest prefix of s made of digits and minus signs
NumLen(s) ==
    CHOOSE k \in 0..Len(s) :
        /\ \A i \in 1..k : s[i] \in NumChars
        /\ (k = Len(s) \/ s[k + 1] \notin NumChars)

\* the five parts of a line: "real: ", numeral, " effective: ", numeral, rest
Fields(s) ==
    LET a  == Sub(s, Len(LitReal) + 1, Len(s))
        n1 == NumLen(a)
        c  == Sub(a, n1 + Len(LitEffective) + 1, Len(a))
        n2 == NumLen(c)
    IN  [lit1 |-> Sub(s, 1, Len(LitReal)),
         real |-> Sub(a, 1, n1),
         lit2 |-> Sub(a, n1 + 1, n1 + Len(LitEffective)),
         eff  |-> Sub(c, 1, n2),
         rest |-> Sub(c, n2 + 1, Len(c))]

\* the digits of a numeral, without its sign
Mag(n) == IF n # <<>> /\ Head(n) = "-" THEN Tail(n) ELSE n

\* a base-10 integer numeral: an optional minus sign, then digits, with no
\* leading zero (and no "-0")
IsNumeral(n) ==
    LET d == Mag(n)
    IN  /\ d # <<>>
        /\ \A i \in 1..Len(d) : d[i] \in Digits
        /\ (Len(d) > 1 => d[1] # "0")
        /\ (d = <<"0">> => n = d)

\* the value of a digit string as a 32-bit word; ovf when it needs more bits
RECURSIVE MagValue(_)
MagValue(d) ==
    IF d = <<>> THEN [w |-> Zero32, ovf |-> FALSE]
    ELSE LET p  == MagValue(SubSeq(d, 1, Len(d) - 1))
             lo == p.w.lo * 10 + DigitVal(d[Len(d)])
             hi == p.w.hi * 10 + lo \div Half
         IN  [w |-> W(hi % Half, lo % Half), ovf |-> p.ovf \/ hi >= Half]

\* a + b = 2^32, for 32-bit words a and b
SumsTo2Pow32(a, b) ==
    /\ (a.lo + b.lo) % Half = 0
    /\ a.hi + b.hi + (a.lo + b.lo) \div Half = Half

\* the numeral n is the number u (n >= 0), or the number u - 2^32 (n < 0)
IsUnsignedOf(n, u) ==
    /\ IsNumeral(n)
    /\ Head(n) # "-"
    /\ MagValue(n) = [w |-> u, ovf |-> FALSE]

IsWrappedOf(n, u) ==
    /\ IsNumeral(n)
    /\ Head(n) = "-"
    /\ ~MagValue(Mag(n)).ovf
    /\ SumsTo2Pow32(MagValue(Mag(n)).w, u)

\* the numeral names the 32-bit identifier u
Denotes(n, u) == IsUnsignedOf(n, u) \/ IsWrappedOf(n, u)

\* the numeral is u in the signed 32-bit representation
IsSignedOf(n, u) ==
    IF u.hi < Half \div 2 THEN IsUnsignedOf(n, u) ELSE IsWrappedOf(n, u)

\* a run has ended and fd 1 took what was written to it
Delivered == pc = "exited" /\ stream.fd1 = "ok"

-----------------------------------------------------------------------------
(* The claims.                                                             *)

\* the line has the layout "real: <numeral> effective: <numeral>\n" and
\* nothing else, the first numeral naming r and the second naming e
LineOf(s, r, e) ==
    LET f == Fields(s)
    IN  /\ f.lit1 = LitReal
        /\ Denotes(f.real, r)
        /\ f.lit2 = LitEffective
        /\ Denotes(f.eff, e)
        /\ f.rest = <<"\n">>
        /\ Cardinality({i \in 1..Len(s) : s[i] = "\n"}) = 1
        /\ Cardinality({i \in 1..Len(s) : s[i] = " "}) = 3

\* C1: whatever reaches standard output is exactly the one line
\* "real: " + numeral of the real uid + " effective: " + numeral of the
\* effective uid + "\n" (real first, effective second, one trailing newline,
\* no other text or whitespace), and a run whose write was taken has written
\* it
C1_OutputLine ==
    (out # <<>> \/ Delivered) => LineOf(out, proc.ruid, proc.euid)

\* a run with different real and effective uids has delivered its line
C1_Witness ==
    Delivered /\ proc.ruid # proc.euid /\ Len(out) > Len(Fmt)

\* C2: a run that completes normally exits with status 0; no other exit
\* code is produced
C2_ExitZero ==
    /\ (pc = "exited" => status = 0)
    /\ status \in {NoStatus, 0}

\* a run with different real and effective uids has written its line and
\* exited
C2_Witness == pc = "exited" /\ status = 0 /\ out # <<>> /\ proc.ruid # proc.euid

\* C4: without the set-identity bit, run by user U, both numbers printed are
\* U and the exit status is 0; U = 1000 prints "real: 1000 effective: 1000\n"
C4_NoSetuid ==
    (Delivered /\ ~exe.setuid) =>
        /\ Denotes(Fields(out).real, invoker)
        /\ Denotes(Fields(out).eff, invoker)
        /\ Fields(out).real = Fields(out).eff
        /\ status = 0
        /\ (invoker = W(0, 1000) =>
               out = <<"r", "e", "a", "l", ":", " ", "1", "0", "0", "0", " ",
                       "e", "f", "f", "e", "c", "t", "i", "v", "e", ":", " ",
                       "1", "0", "0", "0", "\n">>)

\* user 1000 has run an executable owned by somebody else, without the bit
C4_Witness ==
    /\ Delivered
    /\ ~exe.setuid
    /\ invoker = W(0, 1000)
    /\ exe.owner = Zero32

\* C5: with the set-identity bit, owner O and invoker U # O, the two numbers
\* printed differ: the one after "real: " is U and the one after
\* "effective: " is O; O = 0, U = 1000 prints "real: 1000 effective: 0\n",
\* and the exit status is 0
C5_Setuid ==
    (Delivered /\ exe.setuid /\ exe.owner # invoker) =>
        /\ Denotes(Fields(out).real, invoker)
        /\ Denotes(Fields(out).eff, exe.owner)
        /\ Fields(out).real # Fields(out).eff
        /\ status = 0
        /\ (invoker = W(0, 1000) /\ exe.owner = Zero32 =>
               out = <<"r", "e", "a", "l", ":", " ", "1", "0", "0", "0", " ",
                       "e", "f", "f", "e", "c", "t", "i", "v", "e", ":", " ",
                       "0", "\n">>)

\* user 1000 has run a set-uid executable owned by user 0
C5_Witness ==
    /\ Delivered
    /\ exe.setuid
    /\ invoker = W(0, 1000)
    /\ exe.owner = Zero32

\* C9: each identifier is printed in the signed 32-bit representation: u
\* when u < 2^31 and u - 2^32 when u >= 2^31, in base 10 without leading
\* zeros, the real and the effective one independently; 4294967295 prints as
\* -1 and 4294967294 as -2
C9_SignedDecimal ==
    Delivered =>
        /\ IsSignedOf(Fields(out).real, proc.ruid)
        /\ IsSignedOf(Fields(out).eff, proc.euid)
        /\ (proc.ruid = W(Half - 1, Half - 1) => Fields(out).real = <<"-", "1">>)
        /\ (proc.euid = W(Half - 1, Half - 1) => Fields(out).eff = <<"-", "1">>)
        /\ (proc.ruid = W(Half - 1, Half - 2) => Fields(out).real = <<"-", "2">>)
        /\ (proc.euid = W(Half - 1, Half - 2) => Fields(out).eff = <<"-", "2">>)

\* a real uid below 2^31 and an effective uid of 2^32 - 1 have been printed
C9_Witness ==
    /\ Delivered
    /\ proc.ruid = W(Half \div 2 - 1, Half - 1)
    /\ proc.euid = W(Half - 1, Half - 1)

\* the original C3: when standard output cannot be written (closed, or a
\* broken pipe), the run still ends by returning exit status 0
C3_Original ==
    (Terminated /\ stream.fd1 # "ok") => (pc = "exited" /\ status = 0)

\* C3, amended: when the write fails with an error (closed standard output,
\* an I/O error, or a broken pipe with SIGPIPE ignored), nothing is written
\* and the run still ends with exit status 0, also when printf returned -1;
\* on a broken pipe with SIGPIPE at its default disposition the write at
\* exit kills the process, which then has no exit status
C3_FailedWrite ==
    (Terminated /\ stream.fd1 # "ok") =>
        /\ out = <<>>
        /\ IF stream.fd1 = "epipe" /\ stream.sigpipe = "default"
           THEN pc = "killed" /\ status = NoStatus
           ELSE pc = "exited" /\ status = 0

\* printf has reported the failed write to main, and main has returned
C3_Witness ==
    pc = "exited" /\ stream.fd1 = "error" /\ printfRet < 0 /\ out = <<>>

Order == <<"getuid", "geteuid", "printf", "return">>

NumberOf(x, s) == Cardinality({i \in 1..Len(s) : s[i] = x})

\* C7: the steps run in the order query real uid, query effective uid,
\* format and write, exit, each exactly once; the write never precedes
\* either query, the real uid is read before the effective one, and nothing
\* is written after the one line
C7_FixedOrder ==
    /\ Len(trace) <= Len(Order)
    /\ trace = Sub(Order, 1, Len(trace))
    /\ (Terminated => trace = Order)
    /\ (euid # Undef => ruid # Undef)
    /\ NumberOf("write", syscalls) <= 1
    /\ (NumberOf("write", syscalls) = 1 =>
           Sub(syscalls, 1, 3) = <<"getuid", "geteuid", "write">>)
    /\ (out # <<>> =>
           /\ NumberOf("write", syscalls) = 1
           /\ NumberOf("\n", out) = 1
           /\ out[Len(out)] = "\n")

\* a run has gone through all four statements and its line is out
C7_Witness == Terminated /\ trace = Order /\ out # <<>> /\ stream.mode = "full"

\* C8: a run only writes to standard output: the real and effective uid of
\* the process stay what they were at its start, and no system call is made
\* other than the two queries, the write to fd 1 and the exit
C8_NoOtherEffect ==
    /\ proc = ExecCreds(invoker, exe)
    /\ \A i \in 1..Len(syscalls) :
           syscalls[i] \in {"getuid", "geteuid", "write", "exit"}

\* a set-uid run has ended with its privileges as they were
C8_Witness ==
    /\ pc = "exited"
    /\ exe.setuid
    /\ proc.euid = exe.owner
    /\ proc.ruid # proc.euid
    /\ syscalls = <<"getuid", "geteuid", "write", "exit">>

\* C10: every run terminates: a started run always reaches the end of
\* main, whatever the identifiers and whether or not the write succeeds
C10_Terminates ==
    (pc = "L9") ~> (Terminated /\ Len(trace) = Len(Order) /\ trace[Len(Order)] = "return")

\* a run whose write was lost has ended
C10_Witness == Terminated /\ stream.fd1 # "ok" /\ trace = Order /\ printfRet > 0

====
